---- MODULE Spec2Model ----
(***************************************************************************)
(* A model of the trie index of package indexes: TrieNode (trienode.go)   *)
(* and Trie (Add, Remove, Get, GetMany with their helpers).                *)
(*                                                                         *)
(* The node graph is a heap: link[n] is the Go map of node n (a function   *)
(* whose domain is the set of keys present in the map, a value being a     *)
(* node or Nil), IDSet[n] is the identifier set of node n.                 *)
(***************************************************************************)
EXTENDS Integers, Sequences, FiniteSets, TLC

\* ------------------------------------------------------------------ bounds
MaxLen == 2
MaxId == 2
MaxLimit == 2
MaxOps == 3
NumProcs == 3
MaxCalls == 3
MaxRefOps == 4

\* the bytes a key is made of, and the keys, identifiers and limits of the calls
Runes == {"a", "b", "A"}
Keys == UNION {[1..n -> Runes] : n \in 0..MaxLen}
Ids == 1..MaxId
Limits == -1..MaxLimit

\* the goroutines of the concurrent specification and the keys they call with
Procs == 1..NumProcs
ConcKeys == {<<>>, <<"a">>}
ConcIds == {1}

\* link, IDSet: the fields of every TrieNode; mx: the RWMutex of the Trie;
\* proc: the call each goroutine is in and its local variables; fatal: the
\* runtime has aborted the program; last, pre, nops: the last call, the heap
\* before it and the number of calls made; M: the map from key to identifier
\* set the trie is compared with
VARIABLES link, IDSet, mx, proc, fatal, last, pre, nops, M

vars == <<link, IDSet, mx, proc, fatal, last, pre, nops, M>>

\* ------------------------------------------------------------ sequences
Range(s) == {s[i] : i \in 1..Len(s)}

\* the sequences that list every member of S exactly once
Perms(S) == {s \in [1..Cardinality(S) -> S] : Range(s) = S}

\* -------------------------------------------------------- strings.ToLower
ToLowerRune(r) == CASE r = "A" -> "a"
                    [] r = "B" -> "b"
                    [] OTHER -> r

ToLower(s) == [i \in 1..Len(s) |-> ToLowerRune(s[i])]

\* ------------------------------------------------------------------ IDSet
NewIDSet == {}

IDSet_SaveVal(set, id) == set \cup {id}

IDSet_Remove(set, id) == set \ {id}

IDSet_ContainsVal(set, id) == id \in set

IDSet_Size(set) == Cardinality(set)

\* the sequences GetVals can return: the members, in any order
IDSet_GetVals(set) == Perms(set)

\* --------------------------------------------------------------- TrieNode
\* the nil *TrieNode
Nil == <<>>

\* the root node; a node is named by the path it was created at and a serial
root == <<<<>>, 0>>

\* the node allocated for the path: the first name the heap does not hold
NewTrieNode(lk, path) ==
    <<path, CHOOSE k \in 0..Cardinality(DOMAIN lk) :
               /\ <<path, k>> \notin DOMAIN lk
               /\ \A j \in 0..(k - 1) : <<path, j>> \in DOMAIN lk>>

GetLink(lk, tn, r) == IF r \in DOMAIN lk[tn] THEN lk[tn][r] ELSE Nil

PutLink(lk, tn, r, node) ==
    [lk EXCEPT ![tn] = [x \in (DOMAIN lk[tn]) \cup {r} |->
                           IF x = r THEN node ELSE lk[tn][x]]]

\* the keys of the map; the order of the returned array is the map's
GetAllRunes(lk, tn) == DOMAIN lk[tn]

\* RemoveLink deleting the key from the map
RemoveLink_Delete(lk, tn, r) ==
    [lk EXCEPT ![tn] = [x \in (DOMAIN lk[tn]) \ {r} |-> lk[tn][x]]]

RemoveLink(lk, tn, r) ==
    [lk EXCEPT ![tn] = [x \in (DOMAIN lk[tn]) \cup {r} |->
                           IF x = r THEN Nil ELSE lk[tn][x]]]

SaveVal(ids, tn, id) == [ids EXCEPT ![tn] = IDSet_SaveVal(ids[tn], id)]

GetVals(ids, tn) == IDSet_GetVals(ids[tn])

RemoveVal(ids, tn, id) == [ids EXCEPT ![tn] = IDSet_Remove(ids[tn], id)]

ContainsVal(ids, tn, id) == IDSet_ContainsVal(ids[tn], id)

IsLeafNode(lk, tn) == Cardinality(GetAllRunes(lk, tn)) = 0

\* ------------------------------------------------------------------- heap
\* the nodes reachable from the nodes of from by child links
RECURSIVE Reach(_, _)
Reach(lk, from) ==
    LET next == from \cup UNION {{lk[n][r] : r \in {x \in DOMAIN lk[n] : lk[n][x] # Nil}} :
                                   n \in from}
    IN IF \A n \in from : \A r \in DOMAIN lk[n] : lk[n][r] = Nil \/ lk[n][r] \in from
       THEN from
       ELSE Reach(lk, next)

\* what the garbage collector leaves of a heap function: the nodes still referenced
Collect(f, lk, held) == [n \in Reach(lk, held) |-> f[n]]

\* -------------------------------------------------------------- Trie.Add
\* one turn of the loop of Add: follow the link of rune r or create the node
AddStep_AlwaysNew(lk, ids, curr, path, r) ==
    LET newNode == NewTrieNode(lk, Append(path, r))
    IN [link |-> PutLink(lk, curr, r, newNode) @@ (newNode :> <<>>),
        IDSet |-> ids @@ (newNode :> NewIDSet),
        curr |-> newNode]

AddStep(lk, ids, curr, path, r) ==
    LET lnk == GetLink(lk, curr, r)
        newNode == NewTrieNode(lk, Append(path, r))
    IN IF lnk # Nil
       THEN [link |-> lk, IDSet |-> ids, curr |-> GetLink(lk, curr, r)]
       ELSE [link |-> PutLink(lk, curr, r, newNode) @@ (newNode :> <<>>),
             IDSet |-> ids @@ (newNode :> NewIDSet),
             curr |-> newNode]

\* Add with the loop ending one rune early
RECURSIVE AddWalk_OffByOne(_, _, _, _, _)
AddWalk_OffByOne(lk, ids, curr, s, i) ==
    IF i < Len(s) - 1
    THEN LET st == AddStep(lk, ids, curr, SubSeq(s, 1, i), s[i + 1])
         IN AddWalk_OffByOne(st.link, st.IDSet, st.curr, s, i + 1)
    ELSE [link |-> lk, IDSet |-> ids, curr |-> curr]

RECURSIVE AddWalk(_, _, _, _, _)
AddWalk(lk, ids, curr, s, i) ==
    IF i < Len(s)
    THEN LET st == AddStep(lk, ids, curr, SubSeq(s, 1, i), s[i + 1])
         IN AddWalk(st.link, st.IDSet, st.curr, s, i + 1)
    ELSE [link |-> lk, IDSet |-> ids, curr |-> curr]

\* the keys strings.ToLower leaves as they are
LowerKeys == {k \in Keys : ToLower(k) = k}

\* the end of Add with the test turned around
AddSave_Inverted(ids, curr, id) ==
    IF ContainsVal(ids, curr, id) THEN SaveVal(ids, curr, id) ELSE ids

\* the end of Add: save the identifier unless the node holds it
AddSave(ids, curr, id) ==
    IF ~ContainsVal(ids, curr, id) THEN SaveVal(ids, curr, id) ELSE ids

\* Add without strings.ToLower
Add_NoFold(lk, ids, str, id) ==
    LET w == AddWalk(lk, ids, root, str, 0)
    IN [link |-> w.link, IDSet |-> AddSave(w.IDSet, w.curr, id), curr |-> w.curr]

Add(lk, ids, str, id) ==
    LET s == ToLower(str)
        w == AddWalk(lk, ids, root, s, 0)
    IN [link |-> w.link, IDSet |-> AddSave(w.IDSet, w.curr, id), curr |-> w.curr]

\* ---------------------------------------------------------------- findTip
\* findTip returning the last node it reached when a link is missing
RECURSIVE findTip_StopsShort(_, _, _, _)
findTip_StopsShort(lk, prefix, curr, i) ==
    IF i < Len(prefix)
    THEN IF GetLink(lk, curr, prefix[i + 1]) # Nil
         THEN findTip_StopsShort(lk, prefix, GetLink(lk, curr, prefix[i + 1]), i + 1)
         ELSE curr
    ELSE curr

RECURSIVE findTip(_, _, _, _)
findTip(lk, prefix, curr, i) ==
    IF i < Len(prefix)
    THEN IF GetLink(lk, curr, prefix[i + 1]) # Nil
         THEN findTip(lk, prefix, GetLink(lk, curr, prefix[i + 1]), i + 1)
         ELSE Nil
    ELSE curr

\* ----------------------------------------------------------- Trie.Remove
\* removeHelper asking for the detachment of every node left without identifiers
RECURSIVE removeHelper_NoLeafCheck(_, _, _, _, _, _)
removeHelper_NoLeafCheck(lk, ids, curr, prefix, id, index) ==
    IF index = Len(prefix)
    THEN IF ~ContainsVal(ids, curr, id)
         THEN [link |-> lk, IDSet |-> ids, ret |-> FALSE]
         ELSE LET ids2 == RemoveVal(ids, curr, id)
              IN [link |-> lk, IDSet |-> ids2,
                  ret |-> \A vals \in GetVals(ids2, curr) : Len(vals) = 0]
    ELSE LET r == prefix[index + 1]
             node == GetLink(lk, curr, r)
         IN IF node = Nil
            THEN [link |-> lk, IDSet |-> ids, ret |-> FALSE]
            ELSE LET sub == removeHelper_NoLeafCheck(lk, ids, node, prefix, id, index + 1)
                     lk2 == RemoveLink(sub.link, curr, r)
                 IN IF sub.ret
                    THEN [link |-> lk2, IDSet |-> sub.IDSet, ret |-> IsLeafNode(lk2, curr)]
                    ELSE [link |-> sub.link, IDSet |-> sub.IDSet, ret |-> FALSE]

\* removeHelper answering true when the child of the next rune is missing
RECURSIVE removeHelper_MissingTrue(_, _, _, _, _, _)
removeHelper_MissingTrue(lk, ids, curr, prefix, id, index) ==
    IF index = Len(prefix)
    THEN IF ~ContainsVal(ids, curr, id)
         THEN [link |-> lk, IDSet |-> ids, ret |-> FALSE]
         ELSE LET ids2 == RemoveVal(ids, curr, id)
              IN [link |-> lk, IDSet |-> ids2,
                  ret |-> (\A vals \in GetVals(ids2, curr) : Len(vals) = 0)
                          /\ IsLeafNode(lk, curr)]
    ELSE LET r == prefix[index + 1]
             node == GetLink(lk, curr, r)
         IN IF node = Nil
            THEN [link |-> lk, IDSet |-> ids, ret |-> TRUE]
            ELSE LET sub == removeHelper_MissingTrue(lk, ids, node, prefix, id, index + 1)
                     lk2 == RemoveLink(sub.link, curr, r)
                 IN IF sub.ret
                    THEN [link |-> lk2, IDSet |-> sub.IDSet, ret |-> IsLeafNode(lk2, curr)]
                    ELSE [link |-> sub.link, IDSet |-> sub.IDSet, ret |-> FALSE]

RECURSIVE removeHelper(_, _, _, _, _, _)
removeHelper(lk, ids, curr, prefix, id, index) ==
    IF index = Len(prefix)
    THEN IF ~ContainsVal(ids, curr, id)
         THEN [link |-> lk, IDSet |-> ids, ret |-> FALSE]
         ELSE LET ids2 == RemoveVal(ids, curr, id)
              IN [link |-> lk, IDSet |-> ids2,
                  ret |-> (\A vals \in GetVals(ids2, curr) : Len(vals) = 0)
                          /\ IsLeafNode(lk, curr)]
    ELSE LET r == prefix[index + 1]
             node == GetLink(lk, curr, r)
         IN IF node = Nil
            THEN [link |-> lk, IDSet |-> ids, ret |-> FALSE]
            ELSE LET sub == removeHelper(lk, ids, node, prefix, id, index + 1)
                     lk2 == RemoveLink(sub.link, curr, r)
                 IN IF sub.ret
                    THEN [link |-> lk2, IDSet |-> sub.IDSet, ret |-> IsLeafNode(lk2, curr)]
                    ELSE [link |-> sub.link, IDSet |-> sub.IDSet, ret |-> FALSE]

\* Remove walks the prefix as given and drops the result of removeHelper
Remove(lk, ids, prefix, id) ==
    LET h == removeHelper(lk, ids, root, prefix, id, 0)
    IN [link |-> h.link, IDSet |-> h.IDSet]

\* -------------------------------------------------------------- Trie.Get
\* the sequences Get(prefix) can return
Get(lk, ids, str) ==
    LET prefix == ToLower(str)
        curr == findTip(lk, prefix, root, 0)
    IN IF curr # Nil
       THEN {IF Len(vals) # 0 THEN vals ELSE <<>> : vals \in GetVals(ids, curr)}
       ELSE {<<>>}

\* ---------------------------------------------------------- Trie.GetMany
\* the loop over idList with the bound tested by <=
RECURSIVE saveLoop_Overshoot(_, _, _, _)
saveLoop_Overshoot(idList, i, max, res) ==
    IF i < Len(idList)
    THEN saveLoop_Overshoot(idList, i + 1, max,
                            IF IDSet_Size(res) <= max
                            THEN IDSet_SaveVal(res, idList[i + 1]) ELSE res)
    ELSE res

\* the loop over idList: save while the result set is below max
RECURSIVE saveLoop(_, _, _, _)
saveLoop(idList, i, max, res) ==
    IF i < Len(idList)
    THEN saveLoop(idList, i + 1, max,
                  IF IDSet_Size(res) < max THEN IDSet_SaveVal(res, idList[i + 1]) ELSE res)
    ELSE res

\* the result sets depthFirst can leave in res, over the orders of idList and runes
RECURSIVE depthFirst(_, _, _, _, _)
RECURSIVE rangeRunes(_, _, _, _, _, _, _)
depthFirst(lk, ids, curr, max, res) ==
    IF curr = Nil
    THEN {res}
    ELSE UNION {LET saved == IF Len(idList) > 0 THEN saveLoop(idList, 0, max, res) ELSE res
                IN IF Len(idList) > 0 /\ IsLeafNode(lk, curr)
                   THEN {saved}
                   ELSE rangeRunes(lk, ids, curr, runes, 0, max, {saved}) :
                  idList \in GetVals(ids, curr), runes \in Perms(GetAllRunes(lk, curr))}

rangeRunes(lk, ids, curr, runes, i, max, results) ==
    IF i < Len(runes)
    THEN rangeRunes(lk, ids, curr, runes, i + 1, max,
                    UNION {depthFirst(lk, ids, GetLink(lk, curr, runes[i + 1]), max, r2) :
                             r2 \in results})
    ELSE results

\* GetMany collecting from the root when the prefix has no node
GetMany_FromRoot(lk, ids, str, n) ==
    LET prefix == ToLower(str)
        curr == findTip(lk, prefix, root, 0)
    IN UNION {IDSet_GetVals(res) :
                res \in depthFirst(lk, ids, IF curr # Nil THEN curr ELSE root, n, NewIDSet)}

\* the sequences GetMany(prefix, n) can return
GetMany(lk, ids, str, n) ==
    LET prefix == ToLower(str)
        curr == findTip(lk, prefix, root, 0)
    IN IF curr # Nil
       THEN UNION {IDSet_GetVals(res) : res \in depthFirst(lk, ids, curr, n, NewIDSet)}
       ELSE IDSet_GetVals(NewIDSet)

\* ------------------------------------------- the receivers of node methods
\* the nodes Add calls a method on: curr in every turn of the loop and at the save
RECURSIVE AddRecv(_, _, _, _, _)
AddRecv(lk, ids, curr, s, i) ==
    {curr} \cup
    (IF i < Len(s) /\ curr # Nil
     THEN LET st == AddStep(lk, ids, curr, SubSeq(s, 1, i), s[i + 1])
          IN AddRecv(st.link, st.IDSet, st.curr, s, i + 1)
     ELSE {})

\* the nodes findTip calls GetLink on
RECURSIVE findTipRecv(_, _, _, _)
findTipRecv(lk, prefix, curr, i) ==
    IF i < Len(prefix)
    THEN {curr} \cup
         (IF curr # Nil /\ GetLink(lk, curr, prefix[i + 1]) # Nil
          THEN findTipRecv(lk, prefix, GetLink(lk, curr, prefix[i + 1]), i + 1)
          ELSE {})
    ELSE {}

\* the nodes removeHelper calls a method on: curr of every frame
RECURSIVE removeHelperRecv(_, _, _, _)
removeHelperRecv(lk, curr, prefix, index) ==
    {curr} \cup
    (IF index < Len(prefix) /\ curr # Nil /\ GetLink(lk, curr, prefix[index + 1]) # Nil
     THEN removeHelperRecv(lk, GetLink(lk, curr, prefix[index + 1]), prefix, index + 1)
     ELSE {})

\* depthFirst calling GetAllRunes before it looks at curr
RECURSIVE depthFirstRecv_NoNilCheck(_, _, _)
depthFirstRecv_NoNilCheck(lk, ids, curr) ==
    {curr} \cup
    (IF curr = Nil \/ (IDSet_Size(ids[curr]) > 0 /\ IsLeafNode(lk, curr))
     THEN {}
     ELSE UNION {depthFirstRecv_NoNilCheck(lk, ids, GetLink(lk, curr, r)) :
                   r \in GetAllRunes(lk, curr)})

\* the nodes depthFirst calls a method on: curr of every call that gets past the
\* nil test
RECURSIVE depthFirstRecv(_, _, _)
depthFirstRecv(lk, ids, curr) ==
    IF curr = Nil
    THEN {}
    ELSE {curr} \cup
         (IF IDSet_Size(ids[curr]) > 0 /\ IsLeafNode(lk, curr)
          THEN {}
          ELSE UNION {depthFirstRecv(lk, ids, GetLink(lk, curr, r)) :
                        r \in GetAllRunes(lk, curr)})

\* Get: findTip, then GetVals on its result unless that is nil
GetRecv(lk, str) ==
    LET curr == findTip(lk, ToLower(str), root, 0)
    IN findTipRecv(lk, ToLower(str), root, 0) \cup (IF curr # Nil THEN {curr} ELSE {})

\* GetMany: findTip, then depthFirst on its result unless that is nil
GetManyRecv(lk, ids, str) ==
    LET curr == findTip(lk, ToLower(str), root, 0)
    IN findTipRecv(lk, ToLower(str), root, 0)
          \cup (IF curr # Nil THEN depthFirstRecv(lk, ids, curr) ELSE {})

\* ------------------------------------------------- the calls, one at a time
NoCall == [op |-> "none", key |-> <<>>, id |-> 0, n |-> 0, ret |-> <<>>]

\* NewTrie
Idle == [pc |-> "idle", op |-> "none", s |-> <<>>, id |-> 0, n |-> 0,
         i |-> 0, curr |-> Nil, stack |-> <<>>, del |-> FALSE, ret |-> <<>>]

Init ==
    /\ link = (root :> <<>>)
    /\ IDSet = (root :> NewIDSet)
    /\ mx = [w |-> 0, locked |-> FALSE, r |-> {}]
    /\ proc = [p \in Procs |-> Idle]
    /\ fatal = FALSE
    /\ last = NoCall
    /\ pre = [link |-> link, IDSet |-> IDSet]
    /\ nops = 0
    /\ M = [k \in LowerKeys |-> {}]

CallAdd ==
    \E s \in Keys, id \in Ids :
        LET a == Add(link, IDSet, s, id)
        IN /\ nops < MaxOps
           /\ link' = a.link
           /\ IDSet' = a.IDSet
           /\ last' = [op |-> "Add", key |-> s, id |-> id, n |-> 0, ret |-> <<>>]
           /\ pre' = [link |-> link, IDSet |-> IDSet]
           /\ nops' = nops + 1
           /\ UNCHANGED <<M, mx, proc, fatal>>

CallRemove ==
    \E s \in Keys, id \in Ids :
        LET a == Remove(link, IDSet, s, id)
        IN /\ nops < MaxOps
           /\ link' = Collect(a.link, a.link, {root})
           /\ IDSet' = Collect(a.IDSet, a.link, {root})
           /\ last' = [op |-> "Remove", key |-> s, id |-> id, n |-> 0, ret |-> <<>>]
           /\ pre' = [link |-> link, IDSet |-> IDSet]
           /\ nops' = nops + 1
           /\ UNCHANGED <<M, mx, proc, fatal>>

CallGet ==
    \E s \in Keys :
        \E vals \in Get(link, IDSet, s) :
            /\ last' = [op |-> "Get", key |-> s, id |-> 0, n |-> 0, ret |-> vals]
            /\ pre' = [link |-> link, IDSet |-> IDSet]
            /\ UNCHANGED <<M, link, IDSet, nops, mx, proc, fatal>>

CallGetMany ==
    \E s \in Keys, n \in Limits :
        \E vals \in GetMany(link, IDSet, s, n) :
            /\ last' = [op |-> "GetMany", key |-> s, id |-> 0, n |-> n, ret |-> vals]
            /\ pre' = [link |-> link, IDSet |-> IDSet]
            /\ UNCHANGED <<M, link, IDSet, nops, mx, proc, fatal>>

Next == CallAdd \/ CallRemove \/ CallGet \/ CallGetMany

Spec == Init /\ [][Next]_vars

\* ------------------------------- the calls next to a map from key to set
\* Add(k, id) on a key in lower case, and id put into M[k]
RefAdd ==
    \E k \in LowerKeys, id \in Ids :
        LET a == Add(link, IDSet, k, id)
        IN /\ nops < MaxRefOps
           /\ link' = a.link
           /\ IDSet' = a.IDSet
           /\ M' = [M EXCEPT ![k] = @ \cup {id}]
           /\ last' = [op |-> "Add", key |-> k, id |-> id, n |-> 0, ret |-> <<>>]
           /\ pre' = [link |-> link, IDSet |-> IDSet]
           /\ nops' = nops + 1
           /\ UNCHANGED <<mx, proc, fatal>>

\* Remove(k, id) on a key in lower case, and id taken out of M[k]
RefRemove ==
    \E k \in LowerKeys, id \in Ids :
        LET a == Remove(link, IDSet, k, id)
        IN /\ nops < MaxRefOps
           /\ link' = Collect(a.link, a.link, {root})
           /\ IDSet' = Collect(a.IDSet, a.link, {root})
           /\ M' = [M EXCEPT ![k] = @ \ {id}]
           /\ last' = [op |-> "Remove", key |-> k, id |-> id, n |-> 0, ret |-> <<>>]
           /\ pre' = [link |-> link, IDSet |-> IDSet]
           /\ nops' = nops + 1
           /\ UNCHANGED <<mx, proc, fatal>>

NextRef == RefAdd \/ RefRemove

SpecRef == Init /\ [][NextRef]_vars

\* ------------------------------------------------ the calls, as goroutines
\* the nodes a goroutine holds a pointer to
Held(pr) == {root} \cup UNION {({pr[p].curr} \cup Range(pr[p].stack)) \ {Nil} : p \in Procs}

\* a step's result: the heap without the nodes nothing refers to any more
Commit(lk, ids, pr) ==
    /\ link' = Collect(lk, lk, Held(pr))
    /\ IDSet' = Collect(ids, lk, Held(pr))
    /\ proc' = pr

\* a goroutine is reading or writing the node graph
InGraph(p) == proc[p].pc \in {"add_walk", "get_body", "many_body", "rm_down", "rm_up"}

CanCall(p) == proc[p].pc = "idle" /\ nops < MaxCalls /\ ~fatal

\* Add, up to t.mx.Lock()
StartAdd(p) ==
    \E str \in ConcKeys, id \in ConcIds :
        /\ CanCall(p)
        /\ proc' = [proc EXCEPT ![p] = [Idle EXCEPT !.pc = "add_lock", !.op = "Add",
                                                  !.s = ToLower(str), !.id = id]]
        /\ nops' = nops + 1
        /\ UNCHANGED <<M, link, IDSet, mx, fatal, last, pre>>

\* t.mx.Lock(), first half: the writer announces itself; readers that come later wait
AddLock(p) ==
    /\ proc[p].pc = "add_lock" /\ ~fatal
    /\ mx.w = 0
    /\ mx' = [mx EXCEPT !.w = p]
    /\ proc' = [proc EXCEPT ![p].pc = "add_wait"]
    /\ UNCHANGED <<M, link, IDSet, fatal, last, pre, nops>>

\* Lock that does not wait for the readers inside
AddLocked_NoWait(p) ==
    /\ proc[p].pc = "add_wait" /\ ~fatal
    /\ mx.w = p
    /\ mx' = [mx EXCEPT !.locked = TRUE]
    /\ proc' = [proc EXCEPT ![p].pc = "add_walk", ![p].curr = root, ![p].i = 0]
    /\ UNCHANGED <<M, link, IDSet, fatal, last, pre, nops>>

\* t.mx.Lock(), second half: the readers inside have left; curr := t.root
AddLocked(p) ==
    /\ proc[p].pc = "add_wait" /\ ~fatal
    /\ mx.w = p /\ mx.r = {}
    /\ mx' = [mx EXCEPT !.locked = TRUE]
    /\ proc' = [proc EXCEPT ![p].pc = "add_walk", ![p].curr = root, ![p].i = 0]
    /\ UNCHANGED <<M, link, IDSet, fatal, last, pre, nops>>

\* one turn of the loop of Add
AddWalkStep(p) ==
    LET f == proc[p]
        st == AddStep(link, IDSet, f.curr, SubSeq(f.s, 1, f.i), f.s[f.i + 1])
    IN /\ f.pc = "add_walk" /\ ~fatal
       /\ f.i < Len(f.s)
       /\ Commit(st.link, st.IDSet, [proc EXCEPT ![p].curr = st.curr, ![p].i = f.i + 1])
       /\ UNCHANGED <<M, mx, fatal, last, pre, nops>>

\* after the loop: save the identifier
AddSaveStep(p) ==
    LET f == proc[p]
    IN /\ f.pc = "add_walk" /\ ~fatal
       /\ f.i = Len(f.s)
       /\ Commit(link, AddSave(IDSet, f.curr, f.id), [proc EXCEPT ![p].pc = "add_unlock"])
       /\ UNCHANGED <<M, mx, fatal, last, pre, nops>>

\* Add returning without t.mx.Unlock()
AddUnlock_NoUnlock(p) ==
    /\ proc[p].pc = "add_unlock" /\ ~fatal
    /\ Commit(link, IDSet, [proc EXCEPT ![p] = Idle])
    /\ UNCHANGED <<M, mx, fatal, last, pre, nops>>

\* t.mx.Unlock(); return curr
AddUnlock(p) ==
    /\ proc[p].pc = "add_unlock" /\ ~fatal
    /\ mx' = [mx EXCEPT !.w = 0, !.locked = FALSE]
    /\ Commit(link, IDSet, [proc EXCEPT ![p] = Idle])
    /\ UNCHANGED <<M, fatal, last, pre, nops>>

\* Get, up to t.mx.RLock()
StartGet(p) ==
    \E str \in ConcKeys :
        /\ CanCall(p)
        /\ proc' = [proc EXCEPT ![p] = [Idle EXCEPT !.pc = "get_rlock", !.op = "Get",
                                                  !.s = ToLower(str)]]
        /\ nops' = nops + 1
        /\ UNCHANGED <<M, link, IDSet, mx, fatal, last, pre>>

\* GetMany, up to t.mx.RLock()
StartGetMany(p) ==
    \E str \in ConcKeys, n \in {1} :
        /\ CanCall(p)
        /\ proc' = [proc EXCEPT ![p] = [Idle EXCEPT !.pc = "many_rlock", !.op = "GetMany",
                                                  !.s = ToLower(str), !.n = n]]
        /\ nops' = nops + 1
        /\ UNCHANGED <<M, link, IDSet, mx, fatal, last, pre>>

\* t.mx.RLock(): a reader enters unless a writer holds or waits for the lock
ReaderRLock(p) ==
    /\ proc[p].pc \in {"get_rlock", "many_rlock"} /\ ~fatal
    /\ mx.w = 0
    /\ mx' = [mx EXCEPT !.r = @ \cup {p}]
    /\ proc' = [proc EXCEPT ![p].pc = IF proc[p].op = "Get" THEN "get_body" ELSE "many_body"]
    /\ UNCHANGED <<M, link, IDSet, fatal, last, pre, nops>>

\* the body of Get: findTip and GetVals
GetBody(p) ==
    LET f == proc[p]
        curr == findTip(link, f.s, root, 0)
    IN /\ f.pc = "get_body" /\ ~fatal
       /\ \E vals \in (IF curr # Nil THEN GetVals(IDSet, curr) ELSE {<<>>}) :
             proc' = [proc EXCEPT ![p].pc = "runlock",
                                  ![p].ret = IF Len(vals) # 0 THEN vals ELSE <<>>]
       /\ UNCHANGED <<M, link, IDSet, mx, fatal, last, pre, nops>>

\* the body of GetMany: findTip and depthFirst
GetManyBody(p) ==
    LET f == proc[p]
        curr == findTip(link, f.s, root, 0)
    IN /\ f.pc = "many_body" /\ ~fatal
       /\ \E res \in (IF curr # Nil THEN depthFirst(link, IDSet, curr, f.n, NewIDSet)
                                    ELSE {NewIDSet}) :
             \E vals \in IDSet_GetVals(res) :
                 proc' = [proc EXCEPT ![p].pc = "runlock", ![p].ret = vals]
       /\ UNCHANGED <<M, link, IDSet, mx, fatal, last, pre, nops>>

\* the deferred t.mx.RUnlock(), and the return
ReaderRUnlock(p) ==
    /\ proc[p].pc = "runlock" /\ ~fatal
    /\ mx' = [mx EXCEPT !.r = @ \ {p}]
    /\ proc' = [proc EXCEPT ![p] = Idle]
    /\ UNCHANGED <<M, link, IDSet, fatal, last, pre, nops>>

\* Remove: removeHelper(t.root, prefix, id, 0), the prefix as given and no lock
StartRemove(p) ==
    \E str \in ConcKeys, id \in ConcIds :
        /\ CanCall(p)
        /\ proc' = [proc EXCEPT ![p] = [Idle EXCEPT !.pc = "rm_down", !.op = "Remove",
                                                  !.s = str, !.id = id,
                                                  !.stack = <<root>>]]
        /\ nops' = nops + 1
        /\ UNCHANGED <<M, link, IDSet, mx, fatal, last, pre>>

Pop(stack) == SubSeq(stack, 1, Len(stack) - 1)

\* removeHelper above the end of the prefix: recurse into the child, or return false
RemoveDown(p) ==
    LET f == proc[p]
        index == Len(f.stack) - 1
        curr == f.stack[Len(f.stack)]
        node == GetLink(link, curr, f.s[index + 1])
    IN /\ f.pc = "rm_down" /\ ~fatal
       /\ index < Len(f.s)
       /\ IF node = Nil
          THEN Commit(link, IDSet, [proc EXCEPT ![p].pc = "rm_up", ![p].del = FALSE,
                                                ![p].stack = Pop(f.stack)])
          ELSE Commit(link, IDSet, [proc EXCEPT ![p].stack = Append(f.stack, node)])
       /\ UNCHANGED <<M, mx, fatal, last, pre, nops>>

\* removeHelper at the end of the prefix
RemoveTip(p) ==
    LET f == proc[p]
        index == Len(f.stack) - 1
        curr == f.stack[Len(f.stack)]
        ids2 == RemoveVal(IDSet, curr, f.id)
    IN /\ f.pc = "rm_down" /\ ~fatal
       /\ index = Len(f.s)
       /\ IF ~ContainsVal(IDSet, curr, f.id)
          THEN Commit(link, IDSet, [proc EXCEPT ![p].pc = "rm_up", ![p].del = FALSE,
                                                ![p].stack = Pop(f.stack)])
          ELSE Commit(link, ids2,
                      [proc EXCEPT ![p].pc = "rm_up",
                                   ![p].del = ((\A vals \in GetVals(ids2, curr) :
                                                   Len(vals) = 0)
                                               /\ IsLeafNode(link, curr)),
                                   ![p].stack = Pop(f.stack)])
       /\ UNCHANGED <<M, mx, fatal, last, pre, nops>>

\* removeHelper after the recursive call returned: detach the child if it said so
RemoveUp(p) ==
    LET f == proc[p]
        curr == f.stack[Len(f.stack)]
        r == f.s[Len(f.stack)]
        lk2 == RemoveLink(link, curr, r)
    IN /\ f.pc = "rm_up" /\ ~fatal
       /\ f.stack # <<>>
       /\ IF f.del
          THEN Commit(lk2, IDSet, [proc EXCEPT ![p].del = IsLeafNode(lk2, curr),
                                               ![p].stack = Pop(f.stack)])
          ELSE Commit(link, IDSet, [proc EXCEPT ![p].del = FALSE,
                                                ![p].stack = Pop(f.stack)])
       /\ UNCHANGED <<M, mx, fatal, last, pre, nops>>

\* Remove returns; the result of removeHelper is dropped
RemoveReturn(p) ==
    /\ proc[p].pc = "rm_up" /\ ~fatal
    /\ proc[p].stack = <<>>
    /\ proc' = [proc EXCEPT ![p] = Idle]
    /\ UNCHANGED <<M, link, IDSet, mx, fatal, last, pre, nops>>

\* two goroutines are in the node graph with no lock between them: a Remove and
\* any other call
Unsynchronised(p, q) ==
    /\ p # q /\ InGraph(p) /\ InGraph(q)
    /\ proc[p].op = "Remove" \/ proc[q].op = "Remove"

\* a data race on a map: the runtime can stop the program (fatal error:
\* concurrent map read and map write) instead of letting the step happen
Abort(p) ==
    /\ ~fatal
    /\ \E q \in Procs : Unsynchronised(p, q)
    /\ fatal' = TRUE
    /\ UNCHANGED <<M, link, IDSet, mx, proc, last, pre, nops>>

NextC ==
    \E p \in Procs :
        \/ StartAdd(p) \/ AddLock(p) \/ AddLocked(p) \/ AddWalkStep(p)
        \/ AddSaveStep(p) \/ AddUnlock(p)
        \/ StartGet(p) \/ StartGetMany(p) \/ ReaderRLock(p) \/ GetBody(p)
        \/ GetManyBody(p) \/ ReaderRUnlock(p)
        \/ StartRemove(p) \/ RemoveDown(p) \/ RemoveTip(p) \/ RemoveUp(p)
        \/ RemoveReturn(p) \/ Abort(p)

SpecC == Init /\ [][NextC]_vars

\* ------------------------------------ the calls that take the lock, scheduled
\* a call of Add, Get or GetMany begins
StartL(p) == StartAdd(p) \/ StartGet(p) \/ StartGetMany(p)

\* a step of a goroutine inside a call of Add, Get or GetMany
StepL(p) ==
    \/ AddLock(p) \/ AddLocked(p) \/ AddWalkStep(p) \/ AddSaveStep(p) \/ AddUnlock(p)
    \/ ReaderRLock(p) \/ GetBody(p) \/ GetManyBody(p) \/ ReaderRUnlock(p)

NextL == \E p \in Procs : StartL(p) \/ StepL(p)

\* the scheduler runs every goroutine that stays runnable
SpecL == Init /\ [][NextL]_vars /\ \A p \in Procs : WF_vars(StepL(p))

\* ------------------------------------------------------ what the trie holds
\* the nodes of the tree, found from the root
Nodes(lk) == Reach(lk, {root})

\* the identifiers stored at the node of a path (none when the path has no node)
StoredAt(lk, ids, path) == UNION {ids[n] : n \in {m \in Nodes(lk) : m[1] = path}}

IsPrefix(p, s) == Len(p) <= Len(s) /\ SubSeq(s, 1, Len(p)) = p

\* the identifiers stored at the keys that start with the path
StoredBelow(lk, ids, path) == UNION {ids[n] : n \in {m \in Nodes(lk) : IsPrefix(path, m[1])}}

\* a parent's map holds a nil entry on the path: a Remove detached a node there
DetachedOn(lk, path) ==
    \E n \in Nodes(lk) : \E r \in DOMAIN lk[n] :
        lk[n][r] = Nil /\ IsPrefix(Append(n[1], r), path)

SameFold(k1, k2) == ToLower(k1) = ToLower(k2)

\* ------------------------------------------------------------------ claims

\* C1: round trip. A Get(k) issued directly after Add(k, id) returns a sequence
\* that contains id, in every state Add and Remove calls lead to.
C1_RoundTrip ==
    [][(last.op = "Add" /\ last'.op = "Get" /\ last'.key = last.key)
         => last.id \in Range(last'.ret)]_vars

\* C1's case: Add(k, id) has run on a path that a pruning Remove had detached,
\* and the Get(k) that can follow returns id.
C1_Witness ==
    /\ last.op = "Add"
    /\ DetachedOn(pre.link, ToLower(last.key))
    /\ \A vals \in Get(link, IDSet, last.key) : last.id \in Range(vals)

\* C2: removal correctness. From a trie with no identifier at k, Add(k, id), then
\* Remove(k, id), then Get(k) returns the empty sequence.
C2_RemovalCorrect ==
    [][(/\ last.op = "Add"
        /\ StoredAt(pre.link, pre.IDSet, ToLower(last.key)) = {}
        /\ last'.op = "Remove" /\ last'.key = last.key /\ last'.id = last.id)
         => Get(link', IDSet', last.key) = {<<>>}]_vars

\* C3: Remove folds the case of its key. After Add(k1, id), Remove(k2, id) with k2
\* differing from k1 in letter case only removes the pair: no Get(k1), Get(k2)
\* returns id.
C3_RemoveFoldsCase ==
    [][(/\ last.op = "Add"
        /\ last'.op = "Remove" /\ SameFold(last'.key, last.key) /\ last'.id = last.id)
         => \A k \in {last.key, last'.key} :
               \A vals \in Get(link', IDSet', k) : last.id \notin Range(vals)]_vars

\* C4: Remove has the exclusive access Add has. No Remove reads or changes the
\* node graph while a Get or GetMany holds the lock shared, or while an Add or
\* another Remove holds it exclusively.
C4_RemoveExclusive ==
    \A p \in Procs :
        (proc[p].op = "Remove" /\ InGraph(p))
            => /\ mx.r = {}
               /\ ~mx.locked
               /\ \A q \in Procs \ {p} : ~(proc[q].op = "Remove" /\ InGraph(q))

\* a goroutine is between acquiring and releasing the lock
InSection(p) == proc[p].pc \in {"add_walk", "add_unlock", "get_body", "many_body", "runlock"}

\* C5: while an Add is between Lock and Unlock no other Add, Get or GetMany is in
\* its critical section; the walk and the save of Add run with the lock held; the
\* goroutines inside shared sections are inside them together only with readers.
C5_Exclusion ==
    \A p \in Procs :
        /\ (proc[p].op = "Add" /\ InSection(p))
              => /\ mx.locked /\ mx.w = p /\ mx.r = {}
                 /\ \A q \in Procs \ {p} : ~InSection(q)
        /\ (proc[p].op \in {"Get", "GetMany"} /\ InSection(p))
              => p \in mx.r /\ ~mx.locked

\* C5's case: two readers are inside their shared sections at the same time, and
\* an Add that has called Lock waits for them outside its section.
C5_Witness ==
    \E p \in Procs, q \in Procs, a \in Procs :
        /\ p # q
        /\ proc[p].pc = "get_body" /\ proc[q].pc = "many_body"
        /\ proc[a].pc = "add_wait" /\ mx.w = a /\ ~mx.locked

Min(a, b) == IF a < b THEN a ELSE b

NoDuplicate(seq) == \A i \in 1..Len(seq) : \A j \in 1..Len(seq) : seq[i] = seq[j] => i = j

\* C6: bounded prefix query. GetMany(p, n) returns exactly min(n, |D|) pairwise
\* distinct identifiers, all of them in D, the identifiers stored at the keys that
\* start with the folded p; nothing for n <= 0.
C6_BoundedPrefix ==
    last.op = "GetMany"
        => LET D == StoredBelow(link, IDSet, ToLower(last.key))
           IN /\ Range(last.ret) \subseteq D
              /\ NoDuplicate(last.ret)
              /\ Len(last.ret) = (IF last.n <= 0 THEN 0 ELSE Min(last.n, Cardinality(D)))

\* C6's case: a GetMany whose limit is below the number of identifiers under the
\* prefix, these being spread over more than one key, has returned limit many.
C6_Witness ==
    /\ last.op = "GetMany"
    /\ last.n > 0
    /\ last.n < Cardinality(StoredBelow(link, IDSet, ToLower(last.key)))
    /\ StoredAt(link, IDSet, ToLower(last.key))
          # StoredBelow(link, IDSet, ToLower(last.key))
    /\ Len(last.ret) = last.n

\* C7: non-interference of Remove. Remove(k, id) leaves Get(k2) as it was for every
\* key k2 that differs from k after folding, and every other identifier stored at
\* k is still returned by Get(k).
C7_RemoveFrame ==
    last.op = "Remove"
        => /\ \A k2 \in Keys :
                 ~SameFold(k2, last.key)
                     => Get(link, IDSet, k2) = Get(pre.link, pre.IDSet, k2)
           /\ \A id2 \in StoredAt(pre.link, pre.IDSet, ToLower(last.key)) \ {last.id} :
                 \A vals \in Get(link, IDSet, last.key) : id2 \in Range(vals)

\* C7's case: Remove has taken the identifier of a key that is a proper prefix of
\* a key with an identifier of its own, which Get still returns.
C7_Witness ==
    /\ last.op = "Remove"
    /\ last.id \in StoredAt(pre.link, pre.IDSet, last.key)
    /\ last.id \notin StoredAt(link, IDSet, last.key)
    /\ \E k2 \in Keys :
          /\ IsPrefix(last.key, k2) /\ Len(k2) > Len(last.key)
          /\ StoredAt(pre.link, pre.IDSet, k2) # {}
          /\ \A vals \in Get(link, IDSet, k2) :
                Range(vals) = StoredAt(pre.link, pre.IDSet, k2)

\* a node has a child node
HasChild(lk, n) == \E r \in DOMAIN lk[n] : lk[n][r] # Nil

\* C8: no garbage. Between calls no node of the tree but the root has an empty
\* identifier set and no child node.
C8_NoGarbage ==
    \A n \in Nodes(link) \ {root} : IDSet[n] # {} \/ HasChild(link, n)

Count(seq, x) == Cardinality({i \in 1..Len(seq) : seq[i] = x})

\* C9: idempotence of Add. A second Add(k, id) right after Add(k, id) leaves the
\* trie as the first left it; Get(k) holds id exactly once and the identifier set
\* at k has the size it had.
C9_AddIdempotent ==
    [][(last.op = "Add" /\ last'.op = "Add" /\ last'.key = last.key /\ last'.id = last.id)
         => /\ link' = link /\ IDSet' = IDSet
            /\ \A vals \in Get(link', IDSet', last.key) : Count(vals, last.id) = 1
            /\ Cardinality(StoredAt(link', IDSet', ToLower(last.key)))
                  = Cardinality(StoredAt(link, IDSet, ToLower(last.key)))]_vars

\* C9's case: an Add of a pair the trie held already, next to another identifier,
\* has left the trie as it was.
C9_Witness ==
    /\ last.op = "Add"
    /\ last.id \in StoredAt(pre.link, pre.IDSet, ToLower(last.key))
    /\ Cardinality(StoredAt(link, IDSet, ToLower(last.key))) > 1
    /\ link = pre.link /\ IDSet = pre.IDSet

\* C10: Add, Get and GetMany ignore letter case. After Add(k1, id), for every k2
\* that differs from k1 in case only, Get(k2) returns id, GetMany(k2, n) can return
\* id for n >= 1, and Add(k2, id) would have built the same trie.
C10_CaseInsensitive ==
    last.op = "Add"
        => \A k2 \in Keys :
              SameFold(k2, last.key)
                  => /\ \A vals \in Get(link, IDSet, k2) : last.id \in Range(vals)
                     /\ \A n \in Limits :
                           n >= 1 => \E vals \in GetMany(link, IDSet, k2, n) :
                                        last.id \in Range(vals)
                     /\ LET a == Add(pre.link, pre.IDSet, k2, last.id)
                        IN a.link = link /\ a.IDSet = IDSet

\* C10's case: an Add with upper-case letters in its key has run and a Get of the
\* lower-case key returns the identifier.
C10_Witness ==
    /\ last.op = "Add"
    /\ last.key # ToLower(last.key)
    /\ Len(last.key) > 1
    /\ \A vals \in Get(link, IDSet, ToLower(last.key)) : last.id \in Range(vals)

C12_RootEmpty == IDSet[root] = {}

\* C13: Get is exact. Get(k) returns the identifiers of the node of k, each once,
\* and none that is stored below it only; Add(k2, id) with k2 different from k
\* after folding leaves Get(k) as it was.
C13_GetExact ==
    /\ last.op = "Get"
          => /\ Range(last.ret) = StoredAt(link, IDSet, ToLower(last.key))
             /\ NoDuplicate(last.ret)
    /\ last.op = "Add"
          => \A k \in Keys :
                ~SameFold(k, last.key)
                    => Get(link, IDSet, k) = Get(pre.link, pre.IDSet, k)

\* C13's case: Get(k) has run where keys that extend k hold identifiers that the
\* node of k does not hold, and has returned the identifiers of k alone.
C13_Witness ==
    /\ last.op = "Get"
    /\ StoredAt(link, IDSet, ToLower(last.key)) # {}
    /\ StoredBelow(link, IDSet, ToLower(last.key)) # StoredAt(link, IDSet, ToLower(last.key))
    /\ Range(last.ret) = StoredAt(link, IDSet, ToLower(last.key))

\* C14: unknown prefix. When no stored key starts with p, Get(p) and GetMany(p, n)
\* return the empty sequence.
C14_UnknownPrefix ==
    (last.op \in {"Get", "GetMany"} /\ StoredBelow(link, IDSet, ToLower(last.key)) = {})
        => last.ret = <<>>

\* C14's case: GetMany(p, n) with n > 0 has run on a prefix whose keys were added
\* and then all removed, the node of p being still there, and has returned nothing.
C14_Witness ==
    /\ last.op = "GetMany"
    /\ last.n > 0
    /\ Len(last.key) > 0
    /\ findTip(link, ToLower(last.key), root, 0) # Nil
    /\ StoredBelow(link, IDSet, ToLower(last.key)) = {}
    /\ last.ret = <<>>

\* C15: upward pruning restores the structure. From a state with no identifier at
\* k, Add(k, id) then Remove(k, id) leaves exactly the nodes the state had (stated
\* here for the lower-case keys, which Remove walks as Add does).
C15_PruneRestores ==
    [][(/\ last.op = "Add"
        /\ last.key = ToLower(last.key)
        /\ StoredAt(pre.link, pre.IDSet, last.key) = {}
        /\ last'.op = "Remove" /\ last'.key = last.key /\ last'.id = last.id)
         => Nodes(link') = Nodes(pre.link)]_vars

\* the identifiers of node n once the pair of the last Remove is taken out
AfterRemove(n) ==
    pre.IDSet[n] \ (IF n[1] = last.key THEN {last.id} ELSE {})

\* the child of n under rune r is the next node on the path of the last Remove,
\* which the unwinding detached before it came to n
DetachedBefore(n, r) ==
    /\ Len(n[1]) < Len(last.key)
    /\ r = last.key[Len(n[1]) + 1]
    /\ pre.link[n][r] \notin Nodes(link)

\* C16: pruning is safe. A Remove detaches a node only if it then holds no
\* identifier and has no child; a node that holds an identifier or lies on the
\* path of a key with one stays in the tree, and the root stays the root.
C16_PruneSafe ==
    last.op = "Remove"
        => /\ \A n \in Nodes(pre.link) \ Nodes(link) :
                 /\ AfterRemove(n) = {}
                 /\ IsPrefix(n[1], last.key)
                 /\ \A r \in DOMAIN pre.link[n] :
                       pre.link[n][r] # Nil => DetachedBefore(n, r)
           /\ \A n \in Nodes(pre.link) :
                 (\E m \in Nodes(pre.link) : IsPrefix(n[1], m[1]) /\ AfterRemove(m) # {})
                     => n \in Nodes(link)
           /\ root \in Nodes(link) /\ root \in DOMAIN link

\* C16's case: a Remove has detached the node of its key from a parent that holds
\* an identifier of its own, and the parent is still in the tree.
C16_Witness ==
    /\ last.op = "Remove"
    /\ \E n \in Nodes(pre.link) \ Nodes(link) :
          \E m \in Nodes(link) \ {root} :
              /\ Append(m[1], n[1][Len(n[1])]) = n[1]
              /\ IDSet[m] # {}

\* C17: IsLeafNode agrees with the child links. For every node IsLeafNode() is
\* true exactly if GetLink(ch) is nil for every rune ch.
C17_LeafIffNoChild ==
    \A n \in Nodes(link) :
        IsLeafNode(link, n) <=> (\A ch \in Runes : GetLink(link, n, ch) = Nil)

\* C19: no call follows an absent child. Add, Remove, Get and GetMany call node
\* methods on nodes only, never on nil, also after a Remove has left a nil entry
\* in a parent's map.
C19_NoNilReceiver ==
    /\ last.op = "Add" => Nil \notin AddRecv(pre.link, pre.IDSet, root, ToLower(last.key), 0)
    /\ last.op = "Remove" => Nil \notin removeHelperRecv(pre.link, root, last.key, 0)
    /\ last.op = "Get" => Nil \notin GetRecv(pre.link, last.key)
    /\ last.op = "GetMany" => Nil \notin GetManyRecv(pre.link, pre.IDSet, last.key)

\* C19's case: GetMany has run on a prefix below which a Remove left a nil entry:
\* depthFirst was called with the nil child and returned.
C19_Witness ==
    /\ last.op = "GetMany"
    /\ findTip(link, ToLower(last.key), root, 0) # Nil
    /\ \E n \in Nodes(link) : \E r \in DOMAIN link[n] :
          link[n][r] = Nil /\ IsPrefix(ToLower(last.key), n[1])
    /\ StoredBelow(link, IDSet, ToLower(last.key)) # {}

\* C18: the trie refines a map from key to identifier set on keys in lower case.
\* After any sequence of Add(k, id) and Remove(k, id) run next to M, Get(k)
\* returns exactly the members of M[k] for every key k, and GetMany(p, n) with n
\* at least the number of identifiers under p returns exactly the union of M[k]
\* over the keys k that start with p.
C18_RefinesMap ==
    /\ \A k \in LowerKeys :
          \A vals \in Get(link, IDSet, k) : Range(vals) = M[k] /\ NoDuplicate(vals)
    /\ \A p \in LowerKeys, n \in Limits :
          LET U == UNION {M[k] : k \in {x \in LowerKeys : IsPrefix(p, x)}}
          IN n >= Cardinality(U) =>
                \A vals \in GetMany(link, IDSet, p, n) :
                    Range(vals) = U /\ NoDuplicate(vals)

\* C18's case: a Remove took the last identifier of a key and detached its node
\* while a shorter key on the same path keeps an identifier in M.
C18_Witness ==
    /\ last.op = "Remove"
    /\ last.id \in StoredAt(pre.link, pre.IDSet, last.key)
    /\ Nodes(pre.link) \ Nodes(link) # {}
    /\ \E k \in LowerKeys : k # last.key /\ IsPrefix(k, last.key) /\ M[k] # {}
    /\ M[last.key] = {}

\* goroutine p holds the lock, shared or exclusive
Holds(p) == p \in mx.r \/ (mx.w = p /\ mx.locked)

\* C20: every call of Add, Get and GetMany completes and releases the lock. The
\* lock is held by exactly the goroutines inside their sections and is free when
\* no call is in progress; every child lies one level below its parent, so the
\* recursion of GetMany descends a finite tree; a goroutine gives the lock up in
\* the step that returns and in no other, and takes it only from the call of
\* Lock or RLock; under weak fairness every call that has begun returns.
C20_CompletesAndReleases ==
    /\ [](/\ \A p \in Procs : Holds(p) <=> InSection(p)
          /\ \A p \in Procs : mx.w = p => proc[p].pc \in {"add_wait", "add_walk", "add_unlock"}
          /\ (\A p \in Procs : proc[p].pc = "idle")
                => mx = [w |-> 0, locked |-> FALSE, r |-> {}]
          /\ \A n \in DOMAIN link : \A r \in DOMAIN link[n] :
                link[n][r] # Nil => Len(link[n][r][1]) = Len(n[1]) + 1)
    /\ [][\A p \in Procs :
            /\ (Holds(p) /\ ~Holds(p)')
                  <=> (proc[p].pc \in {"add_unlock", "runlock"} /\ proc'[p].pc = "idle")
            /\ (~Holds(p) /\ Holds(p)')
                  => proc[p].pc \in {"add_wait", "get_rlock", "many_rlock"}]_vars
    /\ \A p \in Procs : (proc[p].pc # "idle") ~> (proc[p].pc = "idle")

\* C20's case: all the calls that were started, an Add of "a" among them, have
\* returned and the lock is free.
C20_Witness ==
    /\ nops = MaxCalls
    /\ \A p \in Procs : proc[p].pc = "idle"
    /\ mx = [w |-> 0, locked |-> FALSE, r |-> {}]
    /\ StoredAt(link, IDSet, <<"a">>) # {}

====
